---- MODULE Spec2Model ----
(***************************************************************************)
(* KafkaHelper (src/common/helpers/kafka-helper.js) and the kafka fixture  *)
(* as a state machine: helpers connect and disconnect, messages are        *)
(* published to one topic with one partition, and consumeMessage /         *)
(* consumeMessages waits race a timeout timer against the consumer's       *)
(* eachMessage handler.  The kafkajs consumer is modelled by the parts of  *)
(* its contract the helper relies on: one eachMessage handler per run(),   *)
(* run() ignored while a run is registered, sequential delivery in offset  *)
(* order, one partition owner per consumer group, committed offsets per    *)
(* group.                                                                  *)
(***************************************************************************)
EXTENDS Integers, Sequences, FiniteSets, TLC

\* ---------------------------------------------------------------- bounds
MaxLog == 2
MaxClock == 1
\* Elapsed time is counted in units of 5000 ms.  consumer.subscribe() takes up
\* to MaxSubscribeTime units; a due timer callback runs within Slack units.
MaxSubscribeTime == 2
Slack == 1
\* Run loop failures per consumer.
MaxCrashes == 1

\* SftpClient objects created by one FileHelper.
MaxClients == 2

\* MAX_RETRIES of setup-gocd-local.sh.
MAX_RETRIES_GOCD == 60

\* MAX_RETRIES of the local test-run script.
MAX_RETRIES == 30

\* const { ..., timeout = 10000, ... } = options, in units of 5000 ms
DefaultTimeout == 2

Helpers == {1, 2}
WaitIds == {1, 2}
Clock == 0..MaxClock

\* ------------------------------------------------------------- payloads
\* Raw message values found on the topic.  "jA" and "jB" are JSON objects
\* {id:"A"} and {id:"B"}, "jnull" is the JSON text null, "garbage" is not JSON.
RawValues == {"jA", "jB", "jnull", "garbage"}

\* {id:"A", at: new Date(0)} is stringified to "jAdate", the JSON text
\* {"id":"A","at":"1970-01-01T00:00:00.000Z"}, which parses to "Aiso": the same
\* object with the string in place of the Date.

\* JSON.parse(message.value.toString()): the decoded value, or the SyntaxError
\* it throws.
JSONParse(raw) ==
  CASE raw = "jA" -> "A"
    [] raw = "jAdate" -> "Aiso"
    [] raw = "jB" -> "B"
    [] raw = "jnull" -> "null"
    [] OTHER -> "SyntaxError"

\* The filters the tests pass: msg => msg.id === 'A' and msg => msg.id === 'B'
\* (a property read on null raises TypeError), and no filter at all.
Filters == {"isA", "isB", "none"}

FilterCall(filter, value) ==
  IF value = "null" THEN "TypeError"
  ELSE IF filter = "isA" THEN (IF value \in {"A", "Aiso"} THEN "true" ELSE "false")
  ELSE (IF value = "B" THEN "true" ELSE "false")

FilterPassesAlways(filter, value) == "true"

\* if (!filter || filter(value))
FilterPasses(filter, value) ==
  IF filter = "none" THEN "true" ELSE FilterCall(filter, value)

\* What one eachMessage invocation does with a raw message before its first
\* await: "catch" (JSON.parse or the filter threw), "accept" or "skip".
HandlerCatches(raw) == JSONParse(raw) = "SyntaxError"

HandlerVerdictNoSkip(filter, raw) ==
  IF HandlerCatches(raw) \/ FilterPasses(filter, JSONParse(raw)) = "TypeError"
  THEN "catch" ELSE "accept"

HandlerVerdict(filter, raw) ==
  IF HandlerCatches(raw) THEN "catch"
  ELSE LET r == FilterPasses(filter, JSONParse(raw))
       IN  IF r = "TypeError" THEN "catch"
           ELSE IF r = "true" THEN "accept" ELSE "skip"

ThrownBy(filter, raw) ==
  IF JSONParse(raw) = "SyntaxError" THEN "SyntaxError" ELSE "TypeError"

\* ---------------------------------------------------------------- state
VARIABLES
  now,        \* Date.now()
  log,        \* the topic's single partition: raw values, offset = index - 1
  helper,     \* KafkaHelper instances
  wait,       \* consumeMessage / consumeMessages calls
  committed,  \* consumer group -> next offset to deliver (-1: none committed)
  owner,      \* consumer group -> helper whose consumer holds the partition
  mongo,      \* the MongoHelper instance
  stage,      \* kafka fixture of each helper: "new", "body" or "finished"
  suite,      \* the test that is running and the documents left in the store
  file,       \* the FileHelper instance, its SFTP clients and operations
  gocd,       \* a run of scripts/setup-gocd-local.sh
  runner      \* a run of the local test-run script

vars == <<now, log, helper, wait, committed, owner, mongo, stage,
          suite, file, gocd, runner>>

\* What the KafkaHelper and MongoHelper actions leave alone.
outside == <<suite, file, gocd, runner>>

\* What the FileHelper, test and script actions leave alone.
messaging == <<now, log, helper, wait, committed, owner, stage>>

Pending == [kind |-> "pending", offset |-> -1, value |-> ""]
NullResult == [kind |-> "null", offset |-> -1, value |-> ""]
ListResult == [kind |-> "list", offset |-> -1, value |-> ""]
ErrorResult(e) == [kind |-> "error", offset |-> -1, value |-> e]
MatchResult(o, v) == [kind |-> "match", offset |-> o, value |-> v]

IdleFlight == [phase |-> "idle", w |-> 0, o |-> -1]

NewHelper ==
  [producer |-> "null", consumer |-> "null", isConnected |-> FALSE,
   groupId |-> -1, subscribed |-> FALSE,
   consumerGroup |-> FALSE, handler |-> 0, inflight |-> IdleFlight,
   crash |-> "none", crashes |-> 0, threw |-> FALSE]

NewWait ==
  [pc |-> "idle", h |-> 0, mode |-> "one", filter |-> "none", maxMessages |-> 0,
   fromBeginning |-> "unset", timer |-> "none", outcome |-> Pending,
   messages |-> <<>>, seen |-> <<>>, start |-> -1,
   resolveCalls |-> 0, deliveries |-> 0, drainedAt |-> -1, stolen |-> {},
   timeout |-> DefaultTimeout, sinceCall |-> 0, sinceArmed |-> 0]

\* new MongoHelper(): client, db null, isConnected false.  threw tells whether
\* the last connect() / disconnect() threw, result is the outcome of the last
\* data operation.
NewMongo ==
  [client |-> "null", db |-> "null", isConnected |-> FALSE, threw |-> FALSE,
   result |-> "none"]

\* new FileHelper(): sftpClient null.  clients are the SftpClient objects
\* created so far, ops the SFTP operations called on the helper.
ClientIds == 1..MaxClients

OpIds == {1, 2}

NewClient == [state |-> "unused", endCalls |-> 0]

NewOp == [pc |-> "idle", kind |-> "none", own |-> 0, using |-> 0, error |-> "none"]

NewFile ==
  [sftpClient |-> 0, created |-> 0,
   clients |-> [c \in ClientIds |-> NewClient],
   ops |-> [o \in OpIds |-> NewOp]]

\* setup-gocd-local.sh before its first command.  checks counts the health
\* checks made, exit is the exit status ("cmd": that of a command that failed
\* under set -e).
NewGocd ==
  [pc |-> "prerequisites", retry |-> 0, checks |-> 0, healthy |-> FALSE,
   server |-> "none", agent |-> "none", exit |-> "none", why |-> "none"]

\* The local test-run script before it reads its configuration.  exit is the
\* exit status ("cmd": that of a command that failed under set -e), cleaned
\* tells whether cleanup() has run docker-compose down -v.
NewRunner ==
  [pc |-> "configuration", cleanupOnExit |-> "unset", skipInstall |-> "unset",
   skipServices |-> "unset", testSuite |-> "unset", retry |-> 0,
   kafkaReady |-> FALSE, mongoReady |-> FALSE, services |-> "none",
   tests |-> "none", exit |-> "none", why |-> "none", cleaned |-> FALSE]

\* No test has started; the collections are empty.
NewSuite == [test |-> "none", pc |-> "idle", store |-> {}, error |-> "none"]

Init ==
  /\ now = 0
  /\ log = <<>>
  /\ helper = [h \in Helpers |-> NewHelper]
  /\ wait = [w \in WaitIds |-> NewWait]
  /\ committed = [g \in Clock |-> -1]
  /\ owner = [g \in Clock |-> 0]
  /\ mongo = NewMongo
  /\ stage = [h \in Helpers |-> "new"]
  /\ suite = NewSuite
  /\ file = NewFile
  /\ gocd = NewGocd
  /\ runner = NewRunner

\* ------------------------------------------------------ promise and timer
\* resolve(v) / reject(e) of the Promise created by the wait: only the first
\* call settles it, later calls are ignored.  resolveCalls and deliveries
\* record how often a settlement was attempted and how often the caller's
\* outcome was set.
SettleOverwrites(wr, result) ==
  [wr EXCEPT !.outcome = result, !.deliveries = IF @ < 2 THEN @ + 1 ELSE @,
             !.resolveCalls = IF @ < 2 THEN @ + 1 ELSE @]

Settle(wr, result) ==
  IF wr.outcome.kind = "pending"
  THEN [wr EXCEPT !.outcome = result, !.deliveries = @ + 1,
                  !.resolveCalls = IF @ < 2 THEN @ + 1 ELSE @]
  ELSE [wr EXCEPT !.resolveCalls = IF @ < 2 THEN @ + 1 ELSE @]

\* clearTimeout(timeoutId): cancels a timer that has not fired yet.
ClearTimeoutNoop(wr) == wr

ClearTimeout(wr) ==
  IF wr.timer = "armed" THEN [wr EXCEPT !.timer = "cleared"] ELSE wr

\* What the setTimeout callback resolves with: null (consumeMessage) or the
\* messages array (consumeMessages).
TimeoutRejects(mode) == ErrorResult("Timeout")

TimeoutDropsList(mode) == NullResult

TimeoutResult(mode) == IF mode = "one" THEN NullResult ELSE ListResult

\* groupId: `${config.kafka.clientId}-consumer-${Date.now()}`
GroupIdOf(t) == t

\* ------------------------------------------------------------ lifecycle
Tick ==
  /\ now < MaxClock
  /\ now' = now + 1
  /\ UNCHANGED <<log, helper, wait, committed, owner, mongo, stage, outside>>

NoCallInFlight(h) ==
  /\ helper[h].inflight.phase = "idle"
  /\ \A w \in WaitIds : ~(wait[w].pc = "subscribing" /\ wait[w].h = h)

\* The partition of group g passes to another running member when h leaves.
Released(g, h, nxt) ==
  IF g \in Clock /\ owner[g] = h THEN [owner EXCEPT ![g] = nxt] ELSE owner

Heirs(g, h) ==
  LET others == {k \in Helpers \ {h} :
                   helper[k].groupId = g /\ helper[k].consumerGroup
                   /\ helper[k].inflight.phase = "idle"}
  IN  IF others = {} THEN {0} ELSE others

\* connect(): producer.connect(), then a consumer with a clock-derived group
\* id, consumer.connect(), then isConnected = true.  res is the step that
\* throws, if any.  connect() is called on a helper that is not connected and
\* whose consumer is not running, as the fixture does.
Connect(h, res) ==
  /\ ~helper[h].isConnected
  /\ ~helper[h].consumerGroup
  /\ NoCallInFlight(h)
  /\ helper' = [helper EXCEPT ![h] =
       IF res = "producerFails" THEN [@ EXCEPT !.producer = "created", !.threw = TRUE]
       ELSE [@ EXCEPT !.producer = "connected", !.threw = (res # "ok"),
                      !.consumer = IF res = "ok" THEN "connected" ELSE "created",
                      !.groupId = GroupIdOf(now),
                      !.subscribed = FALSE, !.consumerGroup = FALSE,
                      !.handler = 0, !.crash = "none", !.crashes = 0,
                      !.isConnected = (res = "ok")]]
  /\ UNCHANGED <<now, log, wait, committed, owner, mongo, outside>>

\* if (this.producer) await this.producer.disconnect(); if (this.consumer)
\* await this.consumer.disconnect(): a step can only throw when it is made.
CanThrowAlways(hr, res) == TRUE

CanThrow(hr, res) ==
  /\ res = "producerFails" => hr.producer # "null"
  /\ res = "consumerFails" => hr.consumer # "null"

\* threw records whether the call threw.
\* disconnect(): producer.disconnect(), consumer.disconnect(), then
\* isConnected = false.  consumer.disconnect() stops the run loop.
Disconnect(h, res) ==
  /\ NoCallInFlight(h)
  /\ CanThrow(helper[h], res)
  /\ \E nxt \in Heirs(helper[h].groupId, h) :
       /\ helper' = [helper EXCEPT ![h] =
            IF res = "producerFails" THEN [@ EXCEPT !.threw = TRUE]
            ELSE IF res = "consumerFails"
            THEN [@ EXCEPT !.producer = IF @ = "null" THEN @ ELSE "disconnected",
                           !.threw = TRUE]
            ELSE [@ EXCEPT !.producer = IF @ = "null" THEN @ ELSE "disconnected",
                           !.threw = FALSE,
                           !.consumer = IF @ = "null" THEN @ ELSE "disconnected",
                           !.consumerGroup = FALSE, !.handler = 0,
                           !.isConnected = FALSE]]
       /\ owner' = IF res = "ok" THEN Released(helper[h].groupId, h, nxt) ELSE owner
  /\ UNCHANGED <<now, log, wait, committed, mongo, outside>>

\* ------------------------------------------------------------ publishing
Values == {"A", "B", "null"}

\* The messages of the test that produces with a Date in the payload.
Payloads == Values \cup {"Adate"}

\* JSON.stringify(message)
JSONStringifyLossy(v) == "jnull"

JSONStringify(v) ==
  CASE v = "A" -> "jA"
    [] v = "Adate" -> "jAdate"
    [] v = "B" -> "jB"
    [] OTHER -> "jnull"

\* produceMessage(topic, message)
ProduceMessage(h, v) ==
  /\ helper[h].isConnected
  /\ Len(log) < MaxLog
  /\ log' = Append(log, JSONStringify(v))
  /\ UNCHANGED <<now, helper, wait, committed, owner, mongo, stage, outside>>

\* The system under test (or any other producer) publishes to the topic.
ExternalPublish(raw) ==
  /\ Len(log) < MaxLog
  /\ log' = Append(log, raw)
  /\ UNCHANGED <<now, helper, wait, committed, owner, mongo, stage, outside>>

\* ----------------------------------------------------------------- waits
\* const { filter = null, timeout = 10000, fromBeginning = true } = options
DefaultOnlyNew == FALSE

DefaultFromBeginning == TRUE

FromBeginningOf(opt) == IF opt = "unset" THEN DefaultFromBeginning ELSE opt = "true"

\* The options the calls are made with: a filter on the id or none, the origin
\* left out or fromBeginning: false, and for consumeMessages maxMessages: 2.
Options(mode, filter, maxMessages, fromBeginning) ==
  [mode |-> mode, filter |-> filter, maxMessages |-> maxMessages,
   fromBeginning |-> fromBeginning]

CallOptions ==
  { Options("one", "isA", 0, "unset"), Options("one", "isB", 0, "unset"),
    Options("one", "none", 0, "unset"), Options("one", "isA", 0, "false"),
    Options("many", "isA", 2, "unset"), Options("many", "none", 2, "unset") }

\* The timeout option: the value passed, or the default when it is left out.
\* The value is used as passed: zero and negative values are not rejected.
TimeoutOf(opt) == IF "timeout" \in DOMAIN opt THEN opt.timeout ELSE DefaultTimeout

\* consumeMessage(topic, options) / consumeMessages(topic, options) up to the
\* await of consumer.subscribe(): throws at once when the helper is not
\* connected.
Call(w, h, opt) ==
  /\ wait[w].pc = "idle"
  /\ \A u \in WaitIds : u < w => wait[u].pc # "idle"
  /\ wait' = [wait EXCEPT ![w] =
       IF ~helper[h].isConnected
       THEN [@ EXCEPT !.pc = "done", !.h = h, !.mode = opt.mode,
                      !.outcome = ErrorResult("NotConnected"),
                      !.deliveries = 1]
       ELSE [@ EXCEPT !.pc = "subscribing", !.h = h, !.mode = opt.mode,
                      !.filter = opt.filter, !.maxMessages = opt.maxMessages,
                      !.fromBeginning = opt.fromBeginning,
                      !.timeout = TimeoutOf(opt)]]
  /\ UNCHANGED <<now, log, helper, committed, owner, mongo, stage, outside>>

\* consumer.run({ eachMessage }): ignored while a run is registered on the
\* consumer; otherwise registers w's handler and joins the group.
RunRegisters(hr) == ~hr.consumerGroup

ConsumerRun(hr, w) ==
  IF RunRegisters(hr)
  THEN [hr EXCEPT !.consumerGroup = TRUE, !.handler = w, !.crash = "none"]
  ELSE hr

\* Where a group without committed offset starts reading.
StartOffset(fromBeginning) == IF fromBeginning THEN 0 ELSE Len(log)

\* consumer.subscribe() settles.  On success the Promise executor runs: the
\* timer is started and consumer.run() is called.  On failure the outer catch
\* logs and rethrows.
SubscribeReturns(w, ok) ==
  LET h == wait[w].h
      g == helper[h].groupId
      registers == RunRegisters(helper[h])
  IN
  /\ wait[w].pc = "subscribing"
  /\ IF ~ok
     THEN /\ wait' = [wait EXCEPT ![w] =
                [@ EXCEPT !.pc = "done", !.outcome = ErrorResult("SubscribeError"),
                          !.deliveries = 1]]
          /\ UNCHANGED <<helper, committed, owner>>
     ELSE /\ helper' = [helper EXCEPT ![h] =
                ConsumerRun([@ EXCEPT !.subscribed = TRUE], w)]
          /\ committed' =
               IF registers /\ committed[g] = -1
               THEN [committed EXCEPT ![g] = StartOffset(FromBeginningOf(wait[w].fromBeginning))]
               ELSE committed
          /\ \E o \in (IF registers
                       THEN (IF owner[g] = 0 THEN {h} ELSE {h, owner[g]})
                       ELSE {owner[g]}) :
               owner' = [owner EXCEPT ![g] = o]
          /\ wait' = [wait EXCEPT ![w] =
                [@ EXCEPT !.pc = "armed", !.timer = "armed",
                          !.start = IF registers THEN committed'[g] ELSE -1]]
  /\ UNCHANGED <<now, log, mongo, stage, outside>>

\* Whether h's consumer has nothing left to fetch.
Drained(h) ==
  /\ helper[h].consumerGroup
  /\ helper[h].inflight.phase = "idle"
  /\ owner[helper[h].groupId] = h
  /\ committed[helper[h].groupId] = Len(log)

\* The setTimeout callback: resolve(null) / resolve(messages).  It does not
\* stop the consumer.
TimerFires(w) ==
  /\ wait[w].timer = "armed"
  /\ wait' = [wait EXCEPT ![w] =
       Settle([wait[w] EXCEPT !.timer = "fired",
                 !.drainedAt = IF helper[wait[w].h].handler = w /\ Drained(wait[w].h)
                               THEN Len(log) ELSE -1],
              TimeoutResult(wait[w].mode))]
  /\ UNCHANGED <<now, log, helper, committed, owner, mongo, stage, outside>>

\* ------------------------------------------------------------- delivery
\* The event object built from the message at offset o.
EventAt(o) == MatchResult(o, JSONParse(log[o + 1]))

\* A wait that is armed and pending on a consumer of group g.  The offsets that
\* satisfy its filter and are handed to another wait's handler in its group are
\* recorded in its field stolen.
Bystander(x, g) ==
  /\ wait[x].pc = "armed"
  /\ wait[x].outcome.kind = "pending"
  /\ helper[wait[x].h].groupId = g

\* if (messages.length >= maxMessages)
CapReachedLate(n, maxMessages) == n > maxMessages

CapReachedNever(n, maxMessages) == FALSE

CapReached(n, maxMessages) == n >= maxMessages

\* The consumer of h invokes the registered eachMessage with the next message
\* of the partition.  The handler runs to its first await: a skipped message
\* returns at once; an accepted one (or a thrown error) clears the timer of the
\* handler's wait and awaits consumer.stop().
Deliver(h) ==
  LET g == helper[h].groupId
      w == helper[h].handler
      o == committed[g]
      raw == log[o + 1]
      verdict == HandlerVerdict(wait[w].filter, raw)
      sawIt == [wait[w] EXCEPT !.seen = Append(@, o)]
      pushed == IF wait[w].mode = "many" /\ verdict = "accept"
                THEN [sawIt EXCEPT !.messages = Append(@, o)]
                ELSE sawIt
      full == wait[w].mode = "one"
              \/ CapReached(Len(pushed.messages), wait[w].maxMessages)
  IN
  /\ helper[h].consumerGroup
  /\ helper[h].inflight.phase = "idle"
  /\ w # 0
  /\ owner[g] = h
  /\ o >= 0 /\ o < Len(log)
  /\ wait' = [x \in WaitIds |->
       IF x = w
       THEN (IF verdict = "catch" \/ (verdict = "accept" /\ full)
             THEN ClearTimeout(pushed) ELSE pushed)
       ELSE IF Bystander(x, g) /\ HandlerVerdict(wait[x].filter, raw) = "accept"
       THEN [wait[x] EXCEPT !.stolen = @ \cup {o}]
       ELSE wait[x]]
  /\ IF verdict = "catch"
     THEN /\ helper' = [helper EXCEPT ![h].inflight = [phase |-> "catch", w |-> w, o |-> o]]
          /\ UNCHANGED committed
     ELSE IF verdict = "accept" /\ full
     THEN /\ helper' = [helper EXCEPT ![h].inflight = [phase |-> "match", w |-> w, o |-> o]]
          /\ UNCHANGED committed
     ELSE /\ committed' = [committed EXCEPT ![g] = o + 1]
          /\ UNCHANGED helper
  /\ UNCHANGED <<now, log, owner, mongo, stage, outside>>

\* What the handler settles the promise with once consumer.stop() has returned.
HandlerResult(phase, mode, filter, o) ==
  IF phase = "catch" THEN ErrorResult(ThrownBy(filter, log[o + 1]))
  ELSE IF mode = "one" THEN EventAt(o) ELSE ListResult

\* consumer.stop() awaited inside the handler returns: the run is unregistered,
\* the handler resolves (or rejects) the promise and returns, and the offset of
\* the handled message is committed (a commit by a consumer that lost the
\* partition in a rebalance is refused).
StopReturns(h) ==
  LET g == helper[h].groupId
      w == helper[h].inflight.w
      o == helper[h].inflight.o
  IN
  /\ helper[h].inflight.phase \in {"match", "catch"}
  /\ wait' = [wait EXCEPT ![w] =
       Settle(@, HandlerResult(helper[h].inflight.phase, @.mode, @.filter, o))]
  /\ helper' = [helper EXCEPT ![h] =
       [@ EXCEPT !.inflight = IdleFlight, !.consumerGroup = FALSE, !.handler = 0]]
  /\ committed' = IF owner[g] = h THEN [committed EXCEPT ![g] = o + 1] ELSE committed
  /\ \E nxt \in Heirs(g, h) : owner' = Released(g, h, nxt)
  /\ UNCHANGED <<now, log, mongo, stage, outside>>

\* consumer.stop() awaited inside eachMessage: kafkajs' stop() waits for the
\* consumer to finish the message being handled, which is the handler that
\* awaits it, so the await may never return.  Both outcomes of the await are
\* kept: StopReturns and this one.
StopNeverReturns(h) ==
  /\ helper[h].inflight.phase \in {"match", "catch"}
  /\ helper' = [helper EXCEPT ![h].inflight.phase = "deadlock"]
  /\ UNCHANGED <<now, log, wait, committed, owner, mongo, stage, outside>>

\* ------------------------------------------------------- specification
\* The kafka fixture: const helper = new KafkaHelper(); await helper.connect();
\* await use(helper); await helper.disconnect().
\* await helper.connect(): when it throws, use() and disconnect() are never
\* reached and the fixture is over.
FixtureSetup(h, res) ==
  /\ stage[h] = "new"
  /\ helper[h].producer = "null"
  /\ Connect(h, res)
  /\ stage' = [stage EXCEPT ![h] = IF res = "ok" THEN "body" ELSE "finished"]

\* await helper.disconnect() after use(helper) has returned.
FixtureTeardownSkips(h, res) ==
  /\ stage[h] = "body"
  /\ stage' = [stage EXCEPT ![h] = "finished"]
  /\ UNCHANGED <<now, log, helper, wait, committed, owner, mongo, outside>>

FixtureTeardown(h, res) ==
  /\ stage[h] = "body"
  /\ helper[h].isConnected
  /\ Disconnect(h, res)
  /\ stage' = [stage EXCEPT ![h] = "finished"]

FixtureConnect(h) == FixtureSetup(h, "ok")

FixtureDisconnect(h) == FixtureTeardown(h, "ok")

\* One test with one kafka fixture: the waits of the test body on helper 1.
Next ==
  \/ FixtureConnect(1)
  \/ FixtureDisconnect(1)
  \/ \E v \in Values : ProduceMessage(1, v)
  \/ \E raw \in RawValues : ExternalPublish(raw)
  \/ \E w \in WaitIds, opt \in CallOptions : Call(w, 1, opt)
  \/ \E w \in WaitIds, ok \in BOOLEAN : SubscribeReturns(w, ok)
  \/ \E w \in WaitIds : TimerFires(w)
  \/ Deliver(1)
  \/ StopReturns(1)
  \/ StopNeverReturns(1)

Spec == Init /\ [][Next]_vars

\* The test "should produce and consume Kafka message": the triggering action
\* has completed, and its events are on the topic, before the first wait is
\* called.
NoCallYet == \A w \in WaitIds : wait[w].pc = "idle"

NextRace ==
  \/ FixtureConnect(1)
  \/ FixtureDisconnect(1)
  \/ \E v \in Values : NoCallYet /\ ProduceMessage(1, v)
  \/ \E raw \in RawValues : NoCallYet /\ ExternalPublish(raw)
  \/ \E w \in WaitIds, opt \in CallOptions : Call(w, 1, opt)
  \/ \E w \in WaitIds, ok \in BOOLEAN : SubscribeReturns(w, ok)
  \/ \E w \in WaitIds : TimerFires(w)
  \/ Deliver(1)
  \/ StopReturns(1)
  \/ StopNeverReturns(1)

SpecRace == Init /\ [][NextRace]_vars

\* Two tests running at once, each with its own kafka fixture and one
\* consumeMessage with a filter on the id.
GroupOptions == {Options("one", "isA", 0, "unset"), Options("one", "isB", 0, "unset")}

NextGroups ==
  \/ Tick
  \/ \E h \in Helpers : FixtureConnect(h)
  \/ \E h \in Helpers : FixtureDisconnect(h)
  \/ \E raw \in {"jA", "jB"} : ExternalPublish(raw)
  \/ \E w \in WaitIds, opt \in GroupOptions : Call(w, w, opt)
  \/ \E w \in WaitIds : SubscribeReturns(w, TRUE)
  \/ \E w \in WaitIds : TimerFires(w)
  \/ \E h \in Helpers : Deliver(h)
  \/ \E h \in Helpers : StopReturns(h)
  \/ \E h \in Helpers : StopNeverReturns(h)

SpecGroups == Init /\ [][NextGroups]_vars

\* ------------------------------------------------- run loop failures
\* consumer.run(...) is called without await and without a crash listener, so
\* nothing in the helper learns that the run loop failed.  The consumer's run
\* loop fails on a transport error: the consumer leaves the group, the
\* progress made since the last committed offset r is lost, and the library
\* either schedules a restart of the run with the same eachMessage (a
\* retriable error) or gives up.  The wait's promise and timer are untouched.
RunCrashes(h, r, restart) ==
  LET g == helper[h].groupId
      w == helper[h].handler
  IN
  /\ helper[h].consumerGroup
  /\ helper[h].inflight.phase = "idle"
  /\ helper[h].crashes < MaxCrashes
  /\ w # 0
  /\ owner[g] = h
  /\ wait[w].start >= 0 /\ r >= wait[w].start /\ r <= committed[g]
  /\ helper' = [helper EXCEPT ![h] =
       [@ EXCEPT !.consumerGroup = FALSE, !.crashes = @ + 1,
                 !.crash = IF restart THEN "restarting" ELSE "down"]]
  /\ committed' = [committed EXCEPT ![g] = r]
  /\ \E nxt \in Heirs(g, h) : owner' = Released(g, h, nxt)
  /\ UNCHANGED <<now, log, wait, mongo, stage, outside>>

\* The restart the library scheduled: the run is registered again with the
\* eachMessage handler it was given, and resumes at the committed offset.
RunRestarts(h) ==
  LET g == helper[h].groupId IN
  /\ helper[h].crash = "restarting"
  /\ ~helper[h].consumerGroup
  /\ helper' = [helper EXCEPT ![h] =
       [@ EXCEPT !.consumerGroup = TRUE, !.crash = "none"]]
  /\ \E o \in (IF owner[g] = 0 THEN {h} ELSE {h, owner[g]}) :
       owner' = [owner EXCEPT ![g] = o]
  /\ UNCHANGED <<now, log, wait, committed, mongo, stage, outside>>

\* A test body awaits each wait before it calls the next one.
NoWaitActive ==
  \A u \in WaitIds : wait[u].pc \in {"idle", "done"} \/ wait[u].outcome.kind # "pending"

InfraOptions == {Options("one", "isA", 0, "unset"), Options("many", "none", 2, "unset")}

\* One test whose waits follow one another, with a transport that may fail.
NextInfra ==
  \/ FixtureConnect(1)
  \/ \E raw \in {"jA", "jB"} : ExternalPublish(raw)
  \/ \E w \in WaitIds, opt \in InfraOptions : NoWaitActive /\ Call(w, 1, opt)
  \/ \E w \in WaitIds, ok \in BOOLEAN : SubscribeReturns(w, ok)
  \/ \E w \in WaitIds : TimerFires(w)
  \/ Deliver(1)
  \/ StopReturns(1)
  \/ StopNeverReturns(1)
  \/ \E r \in 0..MaxLog, restart \in BOOLEAN : RunCrashes(1, r, restart)
  \/ RunRestarts(1)

SpecInfra == Init /\ [][NextInfra]_vars

\* ------------------------------------------------------------ elapsed time
\* Options with the timeout given: { filter, timeout }.
WithTimeout(opt, t) ==
  [mode |-> opt.mode, filter |-> opt.filter, maxMessages |-> opt.maxMessages,
   fromBeginning |-> opt.fromBeginning, timeout |-> t]

\* timeout: 5000 as in the tests, and timeout: 0.
TimedOptions ==
  { WithTimeout(Options("one", "isA", 0, "unset"), 1),
    WithTimeout(Options("one", "isA", 0, "unset"), 0),
    WithTimeout(Options("many", "isA", 2, "unset"), 0) }

\* setTimeout(callback, timeout) is called once consumer.subscribe() has
\* settled: the callback is due when timeout has elapsed since then.
TimerDue(w) == wait[w].sinceArmed >= wait[w].timeout

\* A wait whose caller is still waiting for it.
Active(w) ==
  \/ wait[w].pc = "subscribing"
  \/ wait[w].pc = "armed" /\ wait[w].outcome.kind = "pending"

\* One unit of time passes.  sinceCall counts the time the caller has been
\* waiting, sinceArmed the time since the timer was started.  A due timer
\* callback runs within Slack, consumer.subscribe() settles within
\* MaxSubscribeTime.
Elapse ==
  /\ \E w \in WaitIds : Active(w)
  /\ \A w \in WaitIds :
       /\ wait[w].timer = "armed" => wait[w].sinceArmed < wait[w].timeout + Slack
       /\ wait[w].pc = "subscribing" => wait[w].sinceCall < MaxSubscribeTime
  /\ wait' = [w \in WaitIds |->
       IF ~Active(w) THEN wait[w]
       ELSE [wait[w] EXCEPT !.sinceCall = @ + 1,
               !.sinceArmed = IF wait[w].timer = "armed" THEN @ + 1 ELSE @]]
  /\ UNCHANGED <<now, log, helper, committed, owner, mongo, stage, outside>>

\* One test whose waits follow one another and never match, with time.
NextTimed ==
  \/ FixtureConnect(1)
  \/ ExternalPublish("jB")
  \/ \E w \in WaitIds, opt \in TimedOptions : NoWaitActive /\ Call(w, 1, opt)
  \/ \E w \in WaitIds : SubscribeReturns(w, TRUE)
  \/ \E w \in WaitIds : TimerDue(w) /\ TimerFires(w)
  \/ Deliver(1)
  \/ Elapse

SpecTimed == Init /\ [][NextTimed]_vars

\* ------------------------------------------------------------ MongoHelper
Outcomes == {"ok", "fails"}

\* connect(): this.client = new MongoClient(...); await this.client.connect();
\* this.db = this.client.db(...); this.isConnected = true.
MongoAfterConnectEager(m, res) ==
  [m EXCEPT !.client = IF res = "ok" THEN "connected" ELSE "created",
            !.db = "set", !.isConnected = TRUE, !.threw = (res # "ok")]

MongoAfterConnect(m, res) ==
  IF res = "ok"
  THEN [m EXCEPT !.client = "connected", !.db = "set", !.isConnected = TRUE,
                 !.threw = FALSE]
  ELSE [m EXCEPT !.client = "created", !.threw = TRUE]

\* disconnect(): if (this.client) { await this.client.close();
\* this.isConnected = false }.
MongoAfterDisconnect(m, res) ==
  IF m.client = "null" THEN [m EXCEPT !.threw = FALSE]
  ELSE IF res = "fails" THEN [m EXCEPT !.threw = TRUE]
  ELSE [m EXCEPT !.client = "closed", !.isConnected = FALSE, !.threw = FALSE]

\* if (this.client) await this.client.close(): only a call made can throw.
MongoCanThrowAlways(m, res) == TRUE

MongoCanThrow(m, res) == res = "fails" => m.client # "null"

\* connect() is called on a helper that is not connected, as the fixture does.
MongoConnect(res) ==
  /\ ~mongo.isConnected
  /\ mongo' = MongoAfterConnect(mongo, res)
  /\ UNCHANGED <<now, log, helper, wait, committed, owner, stage, outside>>

MongoDisconnect(res) ==
  /\ MongoCanThrow(mongo, res)
  /\ mongo' = MongoAfterDisconnect(mongo, res)
  /\ UNCHANGED <<now, log, helper, wait, committed, owner, stage, outside>>

\* _ensureConnected(): if (!this.isConnected) throw ...
EnsureConnectedByClient(m) == m.client # "null"

EnsureConnected(m) == m.isConnected

\* query, findOne, insert, update, delete, count: this._ensureConnected()
\* first, then the call on this.db.
MongoOps == {"query", "findOne", "insert", "update", "delete", "count"}

MongoOp(op) ==
  /\ op \in MongoOps
  /\ mongo' = [mongo EXCEPT
                 !.result = IF EnsureConnected(mongo) THEN "called" ELSE "NotConnected"]
  /\ UNCHANGED <<now, log, helper, wait, committed, owner, stage, outside>>

\* ---------------------------------------------------------- lifecycle
Steps == {"ok", "producerFails", "consumerFails"}

\* connect() / disconnect() called on the helper outside the fixture.
DirectConnect(h, res) == Connect(h, res) /\ UNCHANGED stage

DirectDisconnect(h, res) == Disconnect(h, res) /\ UNCHANGED stage

LifecycleOptions == {Options("one", "isA", 0, "unset")}

\* Helpers whose connect and disconnect steps may fail, and the data
\* operations called in whatever state that leaves them.
NextLifecycle ==
  \/ \E res \in Steps : FixtureSetup(1, res)
  \/ \E res \in Steps : FixtureTeardown(1, res)
  \/ \E res \in Steps : DirectConnect(1, res)
  \/ \E res \in Steps : DirectDisconnect(1, res)
  \/ ProduceMessage(1, "A")
  \/ \E w \in WaitIds, opt \in LifecycleOptions : NoWaitActive /\ Call(w, 1, opt)
  \/ \E w \in WaitIds, ok \in BOOLEAN : SubscribeReturns(w, ok)
  \/ \E w \in WaitIds : TimerFires(w)
  \/ \E res \in Outcomes : MongoConnect(res)
  \/ \E res \in Outcomes : MongoDisconnect(res)
  \/ \E op \in MongoOps : MongoOp(op)

SpecLifecycle == Init /\ [][NextLifecycle]_vars

\* One test body over the kafka fixture: it produces its own messages, awaits
\* each wait before the next call, and the fixture disconnects when the body
\* has ended.
BodyOptions ==
  { Options("one", "isA", 0, "unset"), Options("one", "isB", 0, "unset"),
    Options("one", "none", 0, "unset"), Options("many", "none", 2, "unset") }

NextBody ==
  \/ FixtureConnect(1)
  \/ NoWaitActive /\ FixtureDisconnect(1)
  \/ \E v \in Payloads : ProduceMessage(1, v)
  \/ \E w \in WaitIds, opt \in BodyOptions : NoWaitActive /\ Call(w, 1, opt)
  \/ \E w \in WaitIds, ok \in BOOLEAN : SubscribeReturns(w, ok)
  \/ \E w \in WaitIds : TimerFires(w)
  \/ Deliver(1)
  \/ StopReturns(1)
  \/ StopNeverReturns(1)

SpecBody == Init /\ [][NextBody]_vars

\* ------------------------------------------------------------ the tests
\* The methods a MongoHelper instance has.
MongoMethods ==
  {"connect", "disconnect", "query", "findOne", "insert", "update", "delete", "count"}

\* mongo.<method>(...) on the fixture's helper: a name that is not a method of
\* the helper is a TypeError, a method starts with _ensureConnected().
Invoke(m, method) ==
  IF method \notin MongoMethods THEN "TypeError"
  ELSE IF EnsureConnected(m) THEN "called" ELSE "NotConnected"

\* The tests that use the mongo fixture: how each creates its document and
\* what its last statement calls to delete it.
OrderTests == {"retrieval", "purchase", "progression", "fullFlow"}

Tests == OrderTests \cup {"products"}

TestPlan(t) ==
  CASE t = "retrieval"   -> [create |-> "insertOne", cleanup |-> "deleteOne"]
    [] t = "purchase"    -> [create |-> "api", cleanup |-> "deleteOne"]
    [] t = "progression" -> [create |-> "api", cleanup |-> "deleteOne"]
    [] t = "fullFlow"    -> [create |-> "api", cleanup |-> "none"]
    [] OTHER             -> [create |-> "insert", cleanup |-> "delete"]

\* The mongo fixture of the next test: new MongoHelper(), await connect().
\* When connect() throws the test does not run.
TestBegins(t, res) ==
  /\ suite.pc \in {"idle", "finished"}
  /\ mongo' = MongoAfterConnect(NewMongo, res)
  /\ suite' = [suite EXCEPT !.test = t, !.error = IF res = "ok" THEN "none" ELSE "connect",
                            !.pc = IF res = "ok" THEN "arrange" ELSE "finished"]
  /\ UNCHANGED <<messaging, file, gocd, runner>>

\* The statement that creates the document: api.post(...) answered by the
\* service, which has stored the order or has not, followed by
\* expect(status).toBe(201); or a call on the mongo fixture.
CreatesRecord(created) ==
  /\ suite.pc = "arrange"
  /\ LET plan == TestPlan(suite.test)
         r == IF plan.create = "api" THEN (IF created THEN "called" ELSE "rejected")
              ELSE Invoke(mongo, plan.create)
     IN /\ plan.create # "api" => created
        /\ suite' = [suite EXCEPT
             !.store = IF r = "called" THEN @ \cup {suite.test} ELSE @,
             !.error = IF r = "called" THEN "none"
                       ELSE IF r = "rejected" THEN "assertion" ELSE r,
             !.pc = IF r = "called" THEN "assert" ELSE "teardown"]
  /\ UNCHANGED <<messaging, mongo, file, gocd, runner>>

\* The assertions between the creation and the last statement: the first
\* expect(...) that fails throws and ends the test body.
Asserts(pass) ==
  /\ suite.pc = "assert"
  /\ suite' = [suite EXCEPT
       !.error = IF pass THEN "none" ELSE "assertion",
       !.pc = IF ~pass \/ TestPlan(suite.test).cleanup = "none"
              THEN "teardown" ELSE "cleanup"]
  /\ UNCHANGED <<messaging, mongo, file, gocd, runner>>

\* The last statement of the test body: await mongo.<cleanup>(collection,
\* { orderId }).
Cleanup ==
  /\ suite.pc = "cleanup"
  /\ LET r == Invoke(mongo, TestPlan(suite.test).cleanup)
     IN suite' = [suite EXCEPT
          !.store = IF r = "called" THEN @ \ {suite.test} ELSE @,
          !.error = IF r = "called" THEN "none" ELSE r,
          !.pc = "teardown"]
  /\ UNCHANGED <<messaging, mongo, file, gocd, runner>>

\* The mongo fixture after use(helper) has returned: await helper.disconnect().
TestEnds(res) ==
  /\ suite.pc = "teardown"
  /\ MongoCanThrow(mongo, res)
  /\ mongo' = MongoAfterDisconnect(mongo, res)
  /\ suite' = [suite EXCEPT !.pc = "finished"]
  /\ UNCHANGED <<messaging, file, gocd, runner>>

\* The tests that use the mongo fixture, one after the other on one store.
NextTests ==
  \/ \E t \in Tests, res \in Outcomes : TestBegins(t, res)
  \/ \E created \in BOOLEAN : CreatesRecord(created)
  \/ \E pass \in BOOLEAN : Asserts(pass)
  \/ Cleanup
  \/ \E res \in Outcomes : TestEnds(res)

SpecTests == Init /\ [][NextTests]_vars

\* ------------------------------------------------------------ FileHelper
SftpKinds == {"upload", "download", "list"}

\* config.sftp: a readable private key, a private key file that cannot be
\* read, a password, or neither.
Credentials == {"privateKey", "unreadableKey", "password", "none"}

\* The statements before connect(): readFileSync throws on an unreadable key;
\* _uploadToSftp and _downloadFromSftp throw when neither is configured,
\* listSftpFiles does not.
ThrowsBeforeConnect(kind, creds) ==
  \/ creds = "unreadableKey"
  \/ creds = "none" /\ kind # "list"

\* finally { if (this.sftpClient) { await this.sftpClient.end(); } }
EndClientNoop(f) == f

EndClient(f) ==
  IF f.sftpClient = 0 THEN f
  ELSE [f EXCEPT !.clients[f.sftpClient] =
          [state |-> "ended", endCalls |-> @.endCalls + 1]]

\* catch (error) { throw error } finally { ... }: operation o leaves its try
\* block with error e.
Leaves(f, o, e) ==
  [EndClient(f) EXCEPT !.ops[o].pc = "ending", !.ops[o].error = e, !.ops[o].using = 0]

\* await this.sftpClient.<call>(...): the call is made on the client the field
\* holds at that moment, and is rejected at once on a client without a
\* connection.
Calls(f, o, pc) ==
  IF f.clients[f.sftpClient].state = "connected"
  THEN [f EXCEPT !.ops[o].pc = pc, !.ops[o].using = f.sftpClient]
  ELSE Leaves(f, o, "transfer")

\* _uploadToSftp / _downloadFromSftp / listSftpFiles up to the first await:
\* this.sftpClient = new SftpClient(), the credentials, connect(...).
SftpStart(o, kind, creds) ==
  /\ file.ops[o].pc \in {"idle", "done"}
  /\ file.created < MaxClients
  /\ LET c == file.created + 1
         f == [file EXCEPT !.sftpClient = c, !.created = c,
                           !.clients[c].state = "new",
                           !.ops[o] = [pc |-> "connecting", kind |-> kind, own |-> c,
                                       using |-> c, error |-> "none"]]
     IN file' = IF ThrowsBeforeConnect(kind, creds)
                THEN Leaves(f, o, "credentials")
                ELSE [f EXCEPT !.clients[c].state = "connecting"]
  /\ UNCHANGED <<messaging, mongo, suite, gocd, runner>>

\* await this.sftpClient.connect(connectionConfig) returns or throws; then
\* mkdir (upload), get (download) or list.
SftpConnectReturns(o, ok) ==
  /\ file.ops[o].pc = "connecting"
  /\ ok => file.clients[file.ops[o].own].state = "connecting"
  /\ file' =
       IF ~ok
       THEN Leaves([file EXCEPT !.clients[file.ops[o].own].state =
                      IF @ = "connecting" THEN "failed" ELSE @], o, "connect")
       ELSE Calls([file EXCEPT !.clients[file.ops[o].own].state = "connected"], o,
                  IF file.ops[o].kind = "upload" THEN "mkdir" ELSE "transfer")
  /\ UNCHANGED <<messaging, mongo, suite, gocd, runner>>

\* await this.sftpClient.mkdir / put / get / list returns or throws.  A call
\* on a client that has been ended throws.
SftpCallReturns(o, ok) ==
  /\ file.ops[o].pc \in {"mkdir", "transfer"}
  /\ ok => file.clients[file.ops[o].using].state = "connected"
  /\ file' =
       IF ~ok THEN Leaves(file, o, "transfer")
       ELSE IF file.ops[o].pc = "mkdir" THEN Calls(file, o, "transfer")
       ELSE Leaves(file, o, "none")
  /\ UNCHANGED <<messaging, mongo, suite, gocd, runner>>

\* await this.sftpClient.end() returns: the operation returns or rethrows.
SftpEndReturns(o) ==
  /\ file.ops[o].pc = "ending"
  /\ file' = [file EXCEPT !.ops[o].pc = "done"]
  /\ UNCHANGED <<messaging, mongo, suite, gocd, runner>>

\* No SFTP operation is between its first statement and its return.
NoOpActive == \A o \in OpIds : file.ops[o].pc \in {"idle", "done"}

\* SFTP operations awaited one after the other, as in the test "should upload
\* and download file from storage".
NextSftp ==
  \/ \E o \in OpIds, kind \in SftpKinds, creds \in Credentials :
       NoOpActive /\ SftpStart(o, kind, creds)
  \/ \E o \in OpIds, ok \in BOOLEAN : SftpConnectReturns(o, ok)
  \/ \E o \in OpIds, ok \in BOOLEAN : SftpCallReturns(o, ok)
  \/ \E o \in OpIds : SftpEndReturns(o)

SpecSftp == Init /\ [][NextSftp]_vars

\* SFTP operations called on one FileHelper without awaiting the previous one.
NextSftpRace ==
  \/ \E o \in OpIds, kind \in SftpKinds, creds \in Credentials : SftpStart(o, kind, creds)
  \/ \E o \in OpIds, ok \in BOOLEAN : SftpConnectReturns(o, ok)
  \/ \E o \in OpIds, ok \in BOOLEAN : SftpCallReturns(o, ok)
  \/ \E o \in OpIds : SftpEndReturns(o)

SpecSftpRace == Init /\ [][NextSftpRace]_vars

\* ------------------------------------------------- setup-gocd-local.sh
\* exit n, or the end of the script under set -e when a command fails.
GocdExits(g, status, why) == [g EXCEPT !.pc = "exited", !.exit = status, !.why = why]

\* Step 1: docker info, lsof on the server port; exit 1 when either fails.
GocdPrerequisites(docker, portFree) ==
  /\ gocd.pc = "prerequisites"
  /\ gocd' = IF docker /\ portFree THEN [gocd EXCEPT !.pc = "startServer"]
             ELSE GocdExits(gocd, 1, "prerequisites")
  /\ UNCHANGED <<messaging, mongo, suite, file, runner>>

\* Step 2: docker stop / rm || true, docker run -d --name gocd-server;
\* RETRY_COUNT=0.
GocdStartsServer(ok) ==
  /\ gocd.pc = "startServer"
  /\ gocd' = IF ok THEN [gocd EXCEPT !.pc = "wait", !.server = "started", !.retry = 0]
             ELSE GocdExits(gocd, "cmd", "server")
  /\ UNCHANGED <<messaging, mongo, suite, file, runner>>

\* if [ $RETRY_COUNT -eq $MAX_RETRIES ]
GivesUpNever(retry) == FALSE

GivesUp(retry) == retry = MAX_RETRIES_GOCD

\* while [ $RETRY_COUNT -lt $MAX_RETRIES ]
LoopContinues(retry) == retry < MAX_RETRIES_GOCD

\* Step 3, one iteration of the loop: curl on the health URL; break when it
\* succeeds, else RETRY_COUNT + 1, sleep 3, exit 1 at MAX_RETRIES.
GocdHealthCheck(ok) ==
  /\ gocd.pc = "wait"
  /\ LET g == [gocd EXCEPT !.checks = @ + 1]
         r == gocd.retry + 1
     IN gocd' = IF ok THEN [g EXCEPT !.healthy = TRUE, !.pc = "startAgent"]
                ELSE IF GivesUp(r) THEN GocdExits([g EXCEPT !.retry = r], 1, "timeout")
                ELSE IF LoopContinues(r) THEN [g EXCEPT !.retry = r]
                ELSE [g EXCEPT !.retry = r, !.pc = "startAgent"]
  /\ UNCHANGED <<messaging, mongo, suite, file, runner>>

\* Step 4: docker run -d --name gocd-agent.
GocdStartsAgent(ok) ==
  /\ gocd.pc = "startAgent"
  /\ gocd' = IF ok THEN [gocd EXCEPT !.pc = "registering", !.agent = "started"]
             ELSE GocdExits(gocd, "cmd", "agent")
  /\ UNCHANGED <<messaging, mongo, suite, file, runner>>

\* Step 5: sleep 30 and the closing messages.
GocdCompletes ==
  /\ gocd.pc = "registering"
  /\ gocd' = GocdExits(gocd, 0, "complete")
  /\ UNCHANGED <<messaging, mongo, suite, file, runner>>

NextGocd ==
  \/ \E docker \in BOOLEAN, portFree \in BOOLEAN : GocdPrerequisites(docker, portFree)
  \/ \E ok \in BOOLEAN : GocdStartsServer(ok)
  \/ \E ok \in BOOLEAN : GocdHealthCheck(ok)
  \/ \E ok \in BOOLEAN : GocdStartsAgent(ok)
  \/ GocdCompletes

SpecGocd == Init /\ [][NextGocd]_vars

\* ------------------------------------------------ local test-run script
\* cleanup(): if [ "$CLEANUP_ON_EXIT" = "true" ]; then docker-compose down -v
\* ... || true; fi
CleanupNever(r) == r

cleanup(r) ==
  IF r.cleanupOnExit = "true"
  THEN [r EXCEPT !.cleaned = TRUE, !.services = IF @ = "up" THEN "down" ELSE @]
  ELSE r

\* exit n, the end of the script, or a command failing under set -e: the EXIT
\* trap runs cleanup.
RunnerExits(r, status, why) ==
  cleanup([r EXCEPT !.pc = "exited", !.exit = status, !.why = why])

\* ${TEST_SUITE:-mf} and the branches of the case statement.
KnownSuites == {"mf", "mft", "service-a", "service-b", "smoke", "all"}

\* The values the script is run with.
SuiteValues == {"unset", "all", "bogus"}

FlagValues == {"unset", "true", "false"}

\* ${NAME:-default}
OrDefault(v, d) == IF v = "unset" THEN d ELSE v

\* trap cleanup EXIT; CLEANUP_ON_EXIT, SKIP_INSTALL, SKIP_SERVICES and
\* TEST_SUITE from the environment or their defaults.
RunnerConfigures(cleanupOnExit, skipInstall, skipServices, testSuite) ==
  /\ runner.pc = "configuration"
  /\ runner' = [runner EXCEPT !.pc = "prerequisites",
                              !.cleanupOnExit = OrDefault(cleanupOnExit, "false"),
                              !.skipInstall = OrDefault(skipInstall, "false"),
                              !.skipServices = OrDefault(skipServices, "false"),
                              !.testSuite = OrDefault(testSuite, "mf")]
  /\ UNCHANGED <<messaging, mongo, suite, file, gocd>>

\* Step 1: node, npm, docker, docker-compose; exit 1 when one is missing.
RunnerPrerequisites(ok) ==
  /\ runner.pc = "prerequisites"
  /\ runner' = IF ok THEN [runner EXCEPT !.pc = "install"]
               ELSE RunnerExits(runner, 1, "prerequisites")
  /\ UNCHANGED <<messaging, mongo, suite, file, gocd>>

\* Steps 2 and 3: yarn / npm install and playwright install unless
\* SKIP_INSTALL, then cp .env.example .env when there is no .env.
RunnerInstalls(ok) ==
  /\ runner.pc = "install"
  /\ runner' = IF ok THEN [runner EXCEPT !.pc = "services"]
               ELSE RunnerExits(runner, "cmd", "install")
  /\ UNCHANGED <<messaging, mongo, suite, file, gocd>>

\* Step 4 up to the first loop: docker-compose up -d, sleep 15,
\* docker-compose ps, RETRY_COUNT=0; skipped unless SKIP_SERVICES is false.
RunnerStartsServices(ok) ==
  /\ runner.pc = "services"
  /\ runner' =
       IF runner.skipServices # "false" THEN [runner EXCEPT !.pc = "tests"]
       ELSE IF ok THEN [runner EXCEPT !.pc = "kafkaWait", !.services = "up", !.retry = 0]
       ELSE RunnerExits(runner, "cmd", "services")
  /\ UNCHANGED <<messaging, mongo, suite, file, gocd>>

\* if [ $RETRY_COUNT -ge $MAX_RETRIES ]
TimedOutLate(retry) == retry > MAX_RETRIES

TimedOut(retry) == retry >= MAX_RETRIES

\* until docker exec pulse-kafka kafka-topics ... --list: one iteration.
RunnerChecksKafka(ok) ==
  /\ runner.pc = "kafkaWait"
  /\ runner' =
       IF ok THEN [runner EXCEPT !.kafkaReady = TRUE, !.pc = "mongoWait", !.retry = 0]
       ELSE IF TimedOut(runner.retry + 1)
       THEN RunnerExits([runner EXCEPT !.retry = @ + 1], 1, "kafkaTimeout")
       ELSE [runner EXCEPT !.retry = @ + 1]
  /\ UNCHANGED <<messaging, mongo, suite, file, gocd>>

\* until docker exec pulse-mongodb mongosh --eval ping: one iteration.
RunnerChecksMongo(ok) ==
  /\ runner.pc = "mongoWait"
  /\ runner' =
       IF ok THEN [runner EXCEPT !.mongoReady = TRUE, !.pc = "tests"]
       ELSE IF TimedOut(runner.retry + 1)
       THEN RunnerExits([runner EXCEPT !.retry = @ + 1], 1, "mongoTimeout")
       ELSE [runner EXCEPT !.retry = @ + 1]
  /\ UNCHANGED <<messaging, mongo, suite, file, gocd>>

\* Step 5: the case statement: npm run test:... for a known suite, exit 1 for
\* an unknown one; a failing test command ends the script under set -e.
RunnerRunsTests(pass) ==
  /\ runner.pc = "tests"
  /\ runner' =
       IF runner.testSuite \notin KnownSuites THEN RunnerExits(runner, 1, "suite")
       ELSE IF pass THEN [runner EXCEPT !.tests = "passed", !.pc = "report"]
       ELSE RunnerExits([runner EXCEPT !.tests = "failed"], "cmd", "tests")
  /\ UNCHANGED <<messaging, mongo, suite, file, gocd>>

\* Step 6 and the end of the script.
RunnerCompletes ==
  /\ runner.pc = "report"
  /\ runner' = RunnerExits(runner, 0, "complete")
  /\ UNCHANGED <<messaging, mongo, suite, file, gocd>>

NextRunner ==
  \/ \E c \in FlagValues, i \in FlagValues, s \in FlagValues, t \in SuiteValues :
       RunnerConfigures(c, i, s, t)
  \/ \E ok \in BOOLEAN : RunnerPrerequisites(ok)
  \/ \E ok \in BOOLEAN : RunnerInstalls(ok)
  \/ \E ok \in BOOLEAN : RunnerStartsServices(ok)
  \/ \E ok \in BOOLEAN : RunnerChecksKafka(ok)
  \/ \E ok \in BOOLEAN : RunnerChecksMongo(ok)
  \/ \E pass \in BOOLEAN : RunnerRunsTests(pass)
  \/ RunnerCompletes

SpecRunner == Init /\ [][NextRunner]_vars

\* ---------------------------------------------------------------- claims
\* The events a filter is satisfied by, read off the payloads: {id:"A"} satisfies
\* the filter on A, {id:"B"} the filter on B, every decodable payload satisfies
\* the absent filter.
Satisfies(filter, raw) ==
  \/ raw \in {"jA", "jAdate"} /\ filter \in {"isA", "none"}
  \/ raw = "jB" /\ filter \in {"isB", "none"}
  \/ raw = "jnull" /\ filter = "none"

Undecodable(raw) == raw = "garbage"
FilterRaises(filter, raw) == raw = "jnull" /\ filter # "none"

SeenSet(w) == {wait[w].seen[i] : i \in 1..Len(wait[w].seen)}
LastSeen(w) == wait[w].seen[Len(wait[w].seen)]
HandlerOf(w) == helper[wait[w].h]
\* w is the only call made so far that reached the consumer of its helper.
FirstOnHelper(w) ==
  \A u \in WaitIds \ {w} : wait[u].pc \in {"idle", "done"}

\* C1: a wait is resolved at most once: the caller's outcome is set at most one
\* time, is one of match, timeout (null or the list) and error, and once set it
\* is never replaced, whatever the order of handler invocations and timer.
C1_ResolvedOnce ==
  [][\A w \in WaitIds :
       /\ wait'[w].deliveries <= 1
       /\ wait'[w].outcome.kind \in {"pending", "match", "null", "list", "error"}
       /\ wait[w].outcome.kind # "pending" => wait'[w].outcome = wait[w].outcome]_vars

\* A wait whose promise was settled by the timer and then resolved again by its
\* handler: two attempts, one delivery.
C1_Witness ==
  \E w \in WaitIds : wait[w].resolveCalls = 2 /\ wait[w].deliveries = 1

\* C2: consumeMessage returns the first event of the delivered sequence that
\* satisfies the filter: a match result is an event that satisfies the filter
\* and every event delivered before it was a non-matching one that was skipped;
\* the timeout result is only produced by the timer having fired; and once the
\* handler has handled the first satisfying event and returned, with the timer
\* not fired before, the result is that event.
C2_FirstMatchReturned ==
  \A w \in WaitIds : wait[w].mode = "one" =>
    /\ wait[w].outcome.kind = "match" =>
         LET k == wait[w].outcome.offset IN
         /\ k \in SeenSet(w)
         /\ Satisfies(wait[w].filter, log[k + 1])
         /\ wait[w].outcome.value = JSONParse(log[k + 1])
         /\ wait[w].start >= 0
         /\ \A o \in wait[w].start..(k - 1) :
              o \in SeenSet(w) /\ ~Satisfies(wait[w].filter, log[o + 1])
    /\ wait[w].outcome.kind = "null" => wait[w].timer = "fired"
    /\ ( /\ wait[w].timer = "cleared"
         /\ HandlerOf(w).inflight.w # w
         /\ Satisfies(wait[w].filter, log[LastSeen(w) + 1]) )
       => wait[w].outcome = MatchResult(LastSeen(w), JSONParse(log[LastSeen(w) + 1]))

\* The second event is returned after the first, non-matching, one was skipped.
C2_Witness ==
  \E w \in WaitIds :
    /\ wait[w].mode = "one" /\ wait[w].filter # "none"
    /\ wait[w].outcome.kind = "match" /\ wait[w].outcome.offset = 1
    /\ wait[w].start = 0

\* C3: a wait with the default origin, the first on a freshly connected helper,
\* reads the topic from its beginning, so an event that satisfies the filter and
\* was on the topic before the call is never missed: the wait does not time out
\* with the consumer having read the whole topic while such an event exists.
C3_RaceImmunity ==
  \A w \in WaitIds :
    (wait[w].mode = "one" /\ wait[w].fromBeginning = "unset" /\ FirstOnHelper(w)) =>
      /\ wait[w].pc = "armed" => wait[w].start = 0
      /\ (wait[w].outcome.kind = "null" /\ wait[w].drainedAt >= 0) =>
           \A o \in 0..(wait[w].drainedAt - 1) : ~Satisfies(wait[w].filter, log[o + 1])

\* The event returned was on the topic before consumeMessage was called (under
\* SpecRace every event is published before the first call).
C3_Witness ==
  \E w \in WaitIds :
    /\ wait[w].mode = "one" /\ wait[w].fromBeginning = "unset" /\ FirstOnHelper(w)
    /\ wait[w].outcome.kind = "match"
    /\ wait[w].outcome.offset = Len(log) - 1

\* C4: the timer firing resolves consumeMessage with null, never with an error;
\* an error outcome comes from the helper not being connected, from subscribe
\* failing or from the handler throwing on an event, never from the absence of a
\* match.
C4_TimeoutIsNull ==
  \A w \in WaitIds : wait[w].mode = "one" =>
    /\ wait[w].timer = "fired" => wait[w].outcome = NullResult
    /\ wait[w].outcome.kind = "error" =>
         \/ wait[w].outcome.value \in {"NotConnected", "SubscribeError"}
              /\ wait[w].timer = "none"
         \/ /\ wait[w].seen # <<>>
            /\ wait[w].timer = "cleared"
            /\ \/ Undecodable(log[LastSeen(w) + 1])
               \/ FilterRaises(wait[w].filter, log[LastSeen(w) + 1])

\* A wait that observed events, none satisfying the filter, and timed out.
C4_Witness ==
  \E w \in WaitIds :
    /\ wait[w].mode = "one" /\ wait[w].outcome = NullResult
    /\ wait[w].seen # <<>>
    /\ \A o \in SeenSet(w) : ~Satisfies(wait[w].filter, log[o + 1])

\* C5: no armed wait is left pending for ever: while its promise is pending,
\* either its timer is still armed or its handler is awaiting a consumer.stop()
\* that returns.
C5_NoWaitLeftPending ==
  \A w \in WaitIds :
    (wait[w].pc = "armed" /\ wait[w].outcome.kind = "pending") =>
      \/ wait[w].timer = "armed"
      \/ HandlerOf(w).inflight.w = w /\ HandlerOf(w).inflight.phase \in {"match", "catch"}

\* C6: once a wait has resolved, by match, timeout or error, the consumer is no
\* longer running with that wait's handler.
C6_TornDownOnEveryExit ==
  \A w \in WaitIds :
    (wait[w].pc = "armed" /\ wait[w].outcome.kind # "pending") =>
      ~(HandlerOf(w).consumerGroup /\ HandlerOf(w).handler = w)

\* C7: with two waits active at once with mutually exclusive filters, an event
\* that satisfies one wait's filter is never handed to the other wait's handler
\* in its place.
MutuallyExclusive(f1, f2) == {f1, f2} = {"isA", "isB"}

C7_Isolation ==
  \A w \in WaitIds, u \in WaitIds :
    MutuallyExclusive(wait[w].filter, wait[u].filter) =>
      wait[w].stolen \cap SeenSet(u) = {}

\* C8: no two helpers that are connected at the same time share a consumer
\* group id.
C8_IsolatedGroupIds ==
  \A h1 \in Helpers, h2 \in Helpers :
    (h1 # h2 /\ helper[h1].isConnected /\ helper[h2].isConnected) =>
      helper[h1].groupId # helper[h2].groupId

\* C9: an undecodable event does not end the wait: no wait is rejected with the
\* decode error of an event.
C9_DecodeFailureSkipped ==
  \A w \in WaitIds :
    ~(wait[w].outcome.kind = "error" /\ wait[w].outcome.value = "SyntaxError")

\* C10: a filter that raises on an event does not end the wait: no wait is
\* rejected with the error the filter raised.
C10_FilterErrorSkipped ==
  \A w \in WaitIds :
    ~(wait[w].outcome.kind = "error" /\ wait[w].outcome.value = "TypeError")

\* The run loop that serves wait w has failed for good while w was armed.
RunLoopDown(w) ==
  /\ wait[w].pc = "armed"
  /\ HandlerOf(w).handler = w
  /\ HandlerOf(w).crash = "down"

\* C11: an infrastructure failure during an active wait reaches the caller as
\* an error: a wait that is pending while its run loop has failed for good is
\* never settled with the timeout result (null or the list), and a wait whose
\* subscribe failed has an error outcome.
C11_InfraFailurePropagates ==
  [][\A w \in WaitIds :
       /\ (RunLoopDown(w) /\ wait[w].outcome.kind = "pending")
            => wait'[w].outcome.kind \notin {"null", "list"}
       /\ (wait[w].pc = "subscribing" /\ wait'[w].pc = "done")
            => wait'[w].outcome.kind = "error"]_vars

Min(a, b) == IF a <= b THEN a ELSE b

\* C12: consumeMessages without a filter (every decodable event is accepted)
\* and maxMessages = K: at the moment it resolves, the list is the events
\* observed, in the order observed, and has min(K, events observed) entries;
\* the list never exceeds K entries; and as soon as the K-th event has been
\* accepted the handler stops taking events and goes on to resolve: a pending
\* wait with K entries has its handler awaiting stop(), and once that handler
\* has returned the wait is resolved with the list of K.
C12_ExactlyMinInArrivalOrder ==
  [][\A w \in WaitIds :
       (wait'[w].mode = "many" /\ wait'[w].filter = "none") =>
         /\ (wait[w].outcome.kind = "pending" /\ wait'[w].outcome.kind = "list") =>
              /\ wait'[w].messages = wait'[w].seen
              /\ Len(wait'[w].messages) = Min(wait'[w].maxMessages, Len(wait'[w].seen))
              /\ \A i, j \in 1..Len(wait'[w].messages) :
                   i < j => wait'[w].messages[i] < wait'[w].messages[j]
         /\ Len(wait'[w].messages) <= wait'[w].maxMessages
         /\ (wait'[w].outcome.kind = "pending"
             /\ Len(wait'[w].messages) >= wait'[w].maxMessages)
              => helper'[wait'[w].h].inflight.w = w
         /\ (wait'[w].timer = "cleared" /\ helper'[wait'[w].h].inflight.w # w
             /\ ~Undecodable(log'[wait'[w].seen[Len(wait'[w].seen)] + 1]))
              => /\ wait'[w].outcome = ListResult
                 /\ Len(wait'[w].messages) = wait'[w].maxMessages]_vars

\* consumeMessages resolved with two events as soon as the second was accepted,
\* its timer cleared before it fired.
C12_Witness ==
  \E w \in WaitIds :
    /\ wait[w].mode = "many" /\ wait[w].filter = "none"
    /\ wait[w].outcome = ListResult /\ wait[w].timer = "cleared"
    /\ wait[w].messages = <<0, 1>>

\* C13: when the timer fires before maxMessages events were accumulated,
\* consumeMessages resolves with the list accumulated so far, possibly empty,
\* and not with an error: an error outcome of consumeMessages never comes from
\* the timer.
C13_PartialListOnTimeout ==
  \A w \in WaitIds : wait[w].mode = "many" =>
    /\ wait[w].timer = "fired" =>
         /\ wait[w].outcome = ListResult
         /\ wait[w].deliveries = 1
    /\ wait[w].outcome.kind = "error" => wait[w].timer # "fired"
    /\ wait[w].outcome.kind \in {"pending", "list", "error"}

\* consumeMessages timed out with one event of the two asked for, having read
\* the whole topic.
C13_Witness ==
  \E w \in WaitIds :
    /\ wait[w].mode = "many" /\ wait[w].maxMessages = 2
    /\ wait[w].timer = "fired" /\ wait[w].outcome = ListResult
    /\ wait[w].drainedAt = 1 /\ Len(wait[w].messages) = 1

\* C14: the events accumulated by consumeMessages are distinct: no offset
\* appears twice in the list.
C14_AccumulatedDistinct ==
  \A w \in WaitIds : wait[w].mode = "many" =>
    \A i, j \in 1..Len(wait[w].messages) :
      i # j => wait[w].messages[i] # wait[w].messages[j]

\* C15: once consumeMessages has resolved with the list, the list no longer
\* changes.
C15_ResultOwnedByCaller ==
  [][\A w \in WaitIds :
       wait[w].outcome.kind = "list" => wait'[w].messages = wait[w].messages]_vars

\* C16: of two waits that follow one another on the same helper, the later one
\* is never handed an event the earlier one observed.
C16_NoReobservation ==
  \A w \in WaitIds, u \in WaitIds :
    (w # u /\ wait[w].h = wait[u].h) => SeenSet(w) \cap SeenSet(u) = {}

\* The steps of a call: it fails at the connection check or awaits subscribe,
\* and is armed when subscribe succeeded.
PcSteps ==
  { <<"idle", "subscribing">>, <<"idle", "done">>,
    <<"subscribing", "armed">>, <<"subscribing", "done">> }

\* C17: a wait goes from idle to armed (through the await of subscribe) and
\* from there to matched, timed out or errored; a settled outcome is final;
\* and the handler observing an event that decodes and for which the filter
\* returns false leaves the wait armed, with its timer, its pending outcome
\* and its list unchanged.
C17_StateMachine ==
  [][\A w \in WaitIds :
       /\ wait'[w].pc # wait[w].pc => <<wait[w].pc, wait'[w].pc>> \in PcSteps
       /\ wait[w].outcome.kind # "pending" =>
            /\ wait'[w].outcome = wait[w].outcome
            /\ wait'[w].pc = wait[w].pc
       /\ (wait[w].outcome.kind = "pending" /\ wait'[w].outcome.kind # "pending") =>
            /\ wait'[w].outcome.kind \in {"match", "null", "list", "error"}
            /\ wait[w].pc # "armed" => wait'[w].outcome.kind = "error"
       /\ ( /\ wait'[w].seen # wait[w].seen
            /\ LET raw == log[wait'[w].seen[Len(wait'[w].seen)] + 1] IN
               /\ ~Undecodable(raw)
               /\ ~FilterRaises(wait[w].filter, raw)
               /\ ~Satisfies(wait[w].filter, raw) )
          => /\ wait'[w].pc = "armed" /\ wait[w].pc = "armed"
             /\ wait'[w].timer = wait[w].timer
             /\ wait'[w].outcome = wait[w].outcome
             /\ wait'[w].messages = wait[w].messages]_vars

\* A wait that skipped a non-matching event and is still armed and pending,
\* with its timer running.
C17_Witness ==
  \E w \in WaitIds :
    /\ wait[w].pc = "armed" /\ wait[w].timer = "armed"
    /\ wait[w].outcome.kind = "pending"
    /\ wait[w].seen = <<0>> /\ wait[w].messages = <<>>
    /\ HandlerOf(w).inflight.phase = "idle"
    /\ ~Satisfies(wait[w].filter, log[1]) /\ ~Undecodable(log[1])
    /\ ~FilterRaises(wait[w].filter, log[1])

\* C18: consumeMessage with a filter that no event satisfies and timeout T
\* resolves with null no earlier than T after the call and no later than T plus
\* the scheduling slack, the time taken by subscribe included.
C18_DeadlinePrecision ==
  \A w \in WaitIds :
    (wait[w].mode = "one" /\ wait[w].timeout > 0 /\ wait[w].outcome = NullResult) =>
      /\ wait[w].sinceCall >= wait[w].timeout
      /\ wait[w].sinceCall <= wait[w].timeout + Slack

\* C19: a call with a timeout that is zero or negative fails before anything is
\* armed: it never awaits subscribe, has no timer and registers no run.
C19_ContractViolationFailsFast ==
  \A w \in WaitIds :
    wait[w].timeout <= 0 =>
      /\ wait[w].pc \in {"idle", "done"}
      /\ wait[w].timer = "none"
      /\ HandlerOf(w).handler # w
      /\ wait[w].outcome.kind \in {"pending", "error"}

\* C20: while the failed run loop of a pending wait is being restarted the
\* failure does not end the wait, and the restarted run still serves that
\* wait; once the run loop has failed for good, the wait ends with an error
\* and with nothing else.
C20_RetriedThenInfraError ==
  [][\A w \in WaitIds :
       ( /\ wait[w].pc = "armed" /\ wait[w].outcome.kind = "pending"
         /\ HandlerOf(w).handler = w ) =>
         /\ HandlerOf(w).crash = "restarting" =>
              /\ wait'[w].outcome.kind # "error"
              /\ helper'[wait[w].h].handler = w
         /\ HandlerOf(w).crash = "down" =>
              wait'[w].outcome.kind \in {"pending", "error"}]_vars

\* A helper on which a disconnect() has nothing left to do.
AlreadyDisconnected(hr) ==
  /\ ~hr.isConnected
  /\ hr.producer \in {"null", "disconnected"}
  /\ hr.consumer \in {"null", "disconnected"}

\* C21: disconnect() is idempotent on KafkaHelper and MongoHelper: on a helper
\* that was never connected it makes no call, does not throw and leaves
\* isConnected false; a disconnect() that does not throw leaves isConnected
\* false; and a second disconnect() after a completed one leaves the helper in
\* the state the first one left it in.
C21_DisconnectIdempotent ==
  [][/\ \A res \in Steps : DirectDisconnect(1, res) =>
          /\ (helper[1].producer = "null" /\ helper[1].consumer = "null") =>
               /\ ~helper'[1].threw
               /\ helper'[1] = [helper[1] EXCEPT !.threw = FALSE]
          /\ ~helper'[1].threw => ~helper'[1].isConnected
          /\ (AlreadyDisconnected(helper[1]) /\ ~helper'[1].threw) =>
               helper'[1] = [helper[1] EXCEPT !.threw = FALSE]
     /\ \A res \in Outcomes : MongoDisconnect(res) =>
          /\ mongo.client = "null" =>
               /\ ~mongo'.threw
               /\ mongo' = [mongo EXCEPT !.threw = FALSE]
          /\ (~mongo'.threw /\ mongo.client # "null") => ~mongo'.isConnected
          /\ (mongo.client = "closed" /\ ~mongo'.threw) =>
               mongo' = [mongo EXCEPT !.threw = FALSE]]_vars

\* Both helpers were connected and have been disconnected, and the last
\* disconnect() of each did not throw.
C21_Witness ==
  /\ helper[1].producer = "disconnected" /\ helper[1].consumer = "disconnected"
  /\ ~helper[1].isConnected /\ ~helper[1].threw
  /\ mongo.client = "closed" /\ ~mongo.isConnected /\ ~mongo.threw

JSONSafe(v) == v \in Values

C24_NotConnectedGuard ==
  [][/\ \A w \in WaitIds :
          (wait[w].pc = "idle" /\ wait'[w].pc # "idle" /\ ~helper[1].isConnected) =>
            /\ wait'[w].pc = "done"
            /\ wait'[w].outcome = ErrorResult("NotConnected")
            /\ wait'[w].timer = "none"
            /\ helper' = helper
     /\ log' # log => helper[1].isConnected
     /\ (\E op \in MongoOps : MongoOp(op)) =>
          /\ ~mongo.isConnected => mongo'.result = "NotConnected"
          /\ mongo'.result = "called" => mongo.isConnected]_vars

\* After a disconnect() of each helper, a wait and a MongoHelper operation
\* both ended with the not-connected error.
C24_Witness ==
  /\ helper[1].producer = "disconnected" /\ ~helper[1].isConnected
  /\ \E w \in WaitIds : wait[w].outcome = ErrorResult("NotConnected")
  /\ mongo.client = "closed" /\ mongo.result = "NotConnected"

\* C25: every wait that is armed has its own handler registered with the
\* consumer, and no event that satisfies its filter is handed to the handler of
\* another wait.
C25_WaitsRepeatable ==
  \A u \in WaitIds :
    wait[u].pc = "armed" => wait[u].start >= 0 /\ wait[u].stolen = {}

\* C26: the handler of a wait that has delivered its result never again goes
\* on to stop the consumer, and never delivers again.
C26_ResolvedWaitInert ==
  [][\A w \in WaitIds :
       (wait[w].pc = "armed" /\ wait[w].outcome.kind # "pending") =>
         /\ helper'[wait[w].h].inflight.w = w => helper[wait[w].h].inflight.w = w
         /\ wait'[w].deliveries = wait[w].deliveries]_vars

\* C27: at the moment a wait is resolved by its handler (a match, or the list
\* that reached maxMessages), its timer has been cleared and the consumer's run
\* has been stopped.
C27_StoppedBeforeDelivery ==
  [][\A w \in WaitIds :
       ( /\ wait[w].outcome.kind = "pending"
         /\ \/ wait'[w].outcome.kind = "match"
            \/ wait'[w].outcome.kind = "list" /\ wait'[w].timer # "fired" ) =>
         /\ wait'[w].timer = "cleared"
         /\ ~helper'[wait[w].h].consumerGroup
         /\ helper'[wait[w].h].inflight.phase = "idle"]_vars

\* A match result with the timer cleared and the consumer stopped.
C27_Witness ==
  \E w \in WaitIds :
    /\ wait[w].outcome.kind = "match" /\ wait[w].timer = "cleared"
    /\ ~HandlerOf(w).consumerGroup

\* C28: the list of consumeMessages never has more than maxMessages entries.
C28_ListCapped ==
  \A w \in WaitIds :
    wait[w].mode = "many" => Len(wait[w].messages) <= wait[w].maxMessages

\* consumeMessages timed out on an empty topic, and events that arrived
\* afterwards filled its list up to maxMessages.
C28_Witness ==
  \E w \in WaitIds :
    /\ wait[w].mode = "many" /\ wait[w].timer = "fired" /\ wait[w].drainedAt = 0
    /\ Len(wait[w].messages) = wait[w].maxMessages

\* C29: isConnected implies that producer and consumer are both connected.
C29_ConnectedMeansBoth ==
  \A h \in Helpers :
    helper[h].isConnected =>
      helper[h].producer = "connected" /\ helper[h].consumer = "connected"

\* C30: when the kafka fixture finishes, neither the producer nor the consumer
\* of its helper is connected.
C30_NoConnectionLeftOpen ==
  [][\A h \in Helpers :
       (stage[h] # "finished" /\ stage'[h] = "finished") =>
         /\ helper'[h].producer # "connected"
         /\ helper'[h].consumer # "connected"]_vars

\* C31: MongoHelper lifecycle: a connect() that succeeds sets isConnected, a
\* connect() that fails on a helper that is not connected leaves it false, a
\* disconnect() that closes the client without throwing clears it, nothing else
\* changes it, and a data operation is accepted exactly when it is set.
C31_MongoLifecycle ==
  [][/\ MongoConnect("ok") => mongo'.isConnected /\ mongo'.client = "connected"
     /\ MongoConnect("fails") => ~mongo'.isConnected
     /\ \A res \in Outcomes :
          (MongoDisconnect(res) /\ mongo.client # "null" /\ ~mongo'.threw)
            => ~mongo'.isConnected
     /\ mongo'.isConnected # mongo.isConnected =>
          \/ MongoConnect("ok")
          \/ MongoDisconnect("ok")
     /\ (\E op \in MongoOps : MongoOp(op)) =>
          mongo'.result = IF mongo.isConnected THEN "called" ELSE "NotConnected"]_vars

\* A connect() that failed, after which a data operation was refused.
C31_Witness ==
  /\ mongo.client = "created" /\ mongo.threw /\ ~mongo.isConnected
  /\ mongo.result = "NotConnected"

\* C32: when an order test has finished, the order it created is not in the
\* 'orders' collection.
C32_OrdersCleanedUp ==
  (suite.pc = "finished" /\ suite.test \in OrderTests) => suite.test \notin suite.store

\* The clients whose operation has left its finally block or is in it.
Finished(o) == file.ops[o].pc \in {"ending", "done"}

\* C33: an SFTP operation that has left its try block, by returning or by
\* throwing, has called end() on the client it created, and once no operation
\* is running no client that was created has a session open.
C33_ClientEndedOnEveryExit ==
  /\ \A o \in OpIds : Finished(o) =>
       /\ file.clients[file.ops[o].own].endCalls >= 1
       /\ file.clients[file.ops[o].own].state = "ended"
  /\ NoOpActive =>
       \A c \in ClientIds : file.clients[c].state \in {"unused", "ended"}

\* One operation threw before connect(), another failed in its transfer and
\* both have ended their clients.
C33_Witness ==
  /\ \E o \in OpIds : file.ops[o].pc = "done" /\ file.ops[o].error = "credentials"
  /\ \E o \in OpIds : file.ops[o].pc = "done" /\ file.ops[o].error = "transfer"
  /\ \A c \in ClientIds : file.clients[c].state = "ended"

\* C34: with operations running at once, every client is ended at most once,
\* an operation that has finished has ended its own client, and the client of
\* an operation that is still running has not been ended.
C34_EndsOnlyOwnClient ==
  /\ \A c \in ClientIds : file.clients[c].endCalls <= 1
  /\ \A o \in OpIds : file.ops[o].pc = "done" => file.clients[file.ops[o].own].endCalls = 1
  /\ \A o \in OpIds : file.ops[o].pc \in {"connecting", "mkdir", "transfer"} =>
       file.clients[file.ops[o].own].state # "ended"

\* C35: the GoCD agent is started only after a health check has succeeded, the
\* loop makes at most 60 health checks, and after 60 failed checks the script
\* has exited with status 1 and no agent.
C35_AgentAfterHealthyServer ==
  /\ gocd.pc \in {"startAgent", "registering"} \/ gocd.agent # "none" => gocd.healthy
  /\ gocd.checks <= MAX_RETRIES_GOCD
  /\ (~gocd.healthy /\ gocd.checks = MAX_RETRIES_GOCD) =>
       gocd.pc = "exited" /\ gocd.exit = 1 /\ gocd.agent = "none"
  /\ gocd.why = "timeout" => ~gocd.healthy /\ gocd.checks = MAX_RETRIES_GOCD

\* The 60th health check failed and the script has exited.
C35_Witness ==
  /\ gocd.why = "timeout" /\ gocd.exit = 1 /\ gocd.checks = MAX_RETRIES_GOCD
  /\ gocd.server = "started" /\ gocd.agent = "none"

\* C36: with SKIP_SERVICES false the tests are started only after the Kafka and
\* the MongoDB readiness checks have succeeded, a readiness loop goes on only
\* after fewer than 30 failed checks, and after the 30th the script has exited
\* with status 1 and no test has run.
C36_TestsAfterReadiness ==
  /\ (runner.skipServices = "false" /\ (runner.pc \in {"tests", "report"} \/ runner.tests # "none"))
       => runner.kafkaReady /\ runner.mongoReady
  /\ runner.pc = "mongoWait" => runner.kafkaReady
  /\ runner.pc \in {"kafkaWait", "mongoWait"} => runner.retry < MAX_RETRIES
  /\ runner.retry <= MAX_RETRIES
  /\ runner.why \in {"kafkaTimeout", "mongoTimeout"} =>
       /\ runner.retry = MAX_RETRIES
       /\ runner.exit = 1 /\ runner.tests = "none"
       /\ ~(runner.kafkaReady /\ runner.mongoReady)

\* Kafka was ready, the 30th MongoDB check failed, the script has exited.
C36_Witness ==
  /\ runner.why = "mongoTimeout" /\ runner.kafkaReady /\ runner.retry = MAX_RETRIES
  /\ runner.exit = 1 /\ runner.tests = "none"

\* C37: when the script has exited, cleanup has run docker-compose down -v
\* exactly when CLEANUP_ON_EXIT is true, whatever the exit path; otherwise
\* services that were started are still up; and nothing is cleaned up before the
\* script exits.
C37_CleanupOnEveryExit ==
  /\ runner.pc = "exited" =>
       /\ runner.cleaned <=> runner.cleanupOnExit = "true"
       /\ runner.cleanupOnExit = "true" => runner.services # "up"
       /\ (runner.cleanupOnExit # "true" /\ runner.skipServices = "false"
             /\ runner.why \notin {"prerequisites", "install", "services"})
            => runner.services = "up"
  /\ runner.pc # "exited" => ~runner.cleaned

\* A failing test command ended the script and cleanup took the services down.
C37_Witness ==
  /\ runner.pc = "exited" /\ runner.why = "tests" /\ runner.exit = "cmd"
  /\ runner.cleanupOnExit = "true" /\ runner.cleaned /\ runner.services = "down"

====
